---- MODULE Spec2Model ----
(***************************************************************************)
(* Model of the alarm engine of OldMusaServer: AlarmFinder and             *)
(* AlarmManager of src/src/alarm.py, polled by a repeating timer, over the *)
(* CNR readings table (ReadingData) and the channel catalog                *)
(* (Site / Sensor / Channel) of src/src/models.py.                         *)
(*                                                                         *)
(* A poll tick (AlarmManager.on_timer_tick) is modelled in the steps the   *)
(* code takes one after the other: compare_data, the pass over alarm_min,  *)
(* the pass over alarm_max, check_alarmed, the pass over its result.  The  *)
(* readings table is written by the data loggers between two ticks.        *)
(***************************************************************************)
EXTENDS Integers, Sequences, FiniteSets, TLC

\* ------------------------------------------------------------------ bounds
\* The clock runs over 1..MaxTime; 0 stands for datetime.datetime.min.
MaxTime == 2
\* The readings table holds at most MaxReadings rows.
MaxReadings == 2

\* At most MaxThreads threads run RepeatingTimer.start.
MaxThreads == 2

\* --------------------------------------------------------------- constants
MIN_MEASURE == 1
MAX_MEASURE == 2

\* ------------------------------------------------------------- the catalog
\* The rows of the query of compare_data over Channel, Sensor and Site
\* (labels as in the query), in the order the rows are returned.
ChannelSeq ==
    << [channel_id |-> 1, channel_cnr_id |-> 101, range_min |-> 2, range_max |-> 4,
        sensor_id |-> 1, station_cnr_id |-> 11, site_id |-> 1, site_cnr_id |-> 10],
       [channel_id |-> 2, channel_cnr_id |-> 102, range_min |-> 2, range_max |-> 4,
        sensor_id |-> 2, station_cnr_id |-> 21, site_id |-> 2, site_cnr_id |-> 20] >>

\* Sensor.id of the sensors of the catalog.
SensorIds == {ChannelSeq[i].sensor_id : i \in 1..Len(ChannelSeq)}


\* The identity columns of ReadingData a reading can carry: the group-by key
\* of control_data.  The first is the reading group of channel 1, the second
\* carries the same site and channel ids under another station, the third
\* is the reading group of channel 2.
GroupSeq ==
    << [site_id |-> 10, room_id |-> 1, station_id |-> 11, sensor_id |-> 1234, channel_id |-> 101],
       [site_id |-> 10, room_id |-> 2, station_id |-> 12, sensor_id |-> 1234, channel_id |-> 101],
       [site_id |-> 20, room_id |-> 3, station_id |-> 21, sensor_id |-> 1234, channel_id |-> 102] >>

\* The (value_min, value_max) pairs a logger writes: the minimum on the
\* lower threshold, both inside the range, the maximum on the upper
\* threshold, and a minimum already above the upper threshold.
Values ==
    { [value_min |-> 2, value_max |-> 3],
      [value_min |-> 3, value_max |-> 3],
      [value_min |-> 3, value_max |-> 4],
      [value_min |-> 5, value_max |-> 5] }

VARIABLES
    now,                         \* datetime.datetime.now()
    readings,                    \* the rows of t_rilevamento_dati
    last_time,                   \* AlarmFinder.last_time
    last_time_file,              \* the content of last_alarm_reading.txt
    alarmed_channels,            \* AlarmManager.alarmed_channels, in insertion order
    alarmed_channels_by_sensor,  \* AlarmManager.alarmed_channels_by_sensor
    alarmed_channels_save_file,  \* the dictionary pickled in alarmed_channels.txt
    sensor_status,               \* Sensor.status: the channel ids fired, <<>> is "ok"
    sent,                        \* the calls of Contacter.send_alarm of the tick in progress
    log,                         \* the warnings logged by the tick in progress
    pc,                          \* where on_timer_tick stands
    check_time,                  \* control_data's check_time
    alarm_min,                   \* on_timer_tick's alarm_min, what is left of it
    alarm_max,                   \* on_timer_tick's alarm_max, what is left of it
    status,                      \* on_timer_tick's status, what is left of it
    sensor_enabled,              \* Sensor.enabled of each sensor
    failure,                     \* the error that ended the poll loop, "none" when none did
    scanned,                     \* history: the rows a query of control_data ran over
    is_running,                  \* RepeatingTimer.is_running
    stop_event,                  \* RepeatingTimer._stop_event, TRUE when set
    threads,                     \* where each thread running RepeatingTimer.start stands
    stopper,                     \* where the caller of RepeatingTimer.stop stands
    starter,                     \* where the caller of AlarmManager.start stands
    last_password_change,        \* User.last_password_change of each user
    tokens                       \* history: the tokens generate_auth_token has returned

\* The state of the RepeatingTimer object.
timerVars == << is_running, stop_event, threads, stopper >>

\* The thread that calls AlarmManager.start and the accounts of the REST
\* interface, which neither a tick nor the timer touches.
otherVars == << starter, last_password_change, tokens >>

\* What the actions of the alarm engine without failures leave alone.
extVars == << sensor_enabled, failure, timerVars, otherVars >>

vars == << now, readings, last_time, last_time_file, alarmed_channels,
           alarmed_channels_by_sensor, alarmed_channels_save_file, sensor_status,
           sent, log, pc, check_time, alarm_min, alarm_max, status,
           sensor_enabled, failure, scanned, is_running, stop_event, threads, stopper,
           starter, last_password_change, tokens >>

\* User.id of the users.  Each was created, and given a password, before
\* the clock of the model began: last_password_change is 0.
UserIds == {1, 2}

\* No thread is in AlarmManager.start: it has returned, or it is not
\* called yet.
StartDone == [pc |-> "done", alarmed_sensors |-> << >>, dirty |-> {}]

\* Sensor.enabled of sensor s.
SensorEnabled(s) == sensor_enabled[s]

\* ----------------------------------------------------------------- helpers
Max(S) == CHOOSE x \in S : \A y \in S : y <= x
Min(S) == CHOOSE x \in S : \A y \in S : x <= y

\* The smallest object identity not in use.
NewOid(used) == Min({n \in 1..(Cardinality(used) + 1) : n \notin used})

\* ------------------------------------------------------ AlarmedChannelData
\* A new AlarmedChannelData object; oid is the identity of the object.
AlarmedChannelData(oid, site_id, sensor_id, channel_id, cnr_site_id, cnr_station_id, cnr_channel_id, range_min, range_max) ==
    [oid |-> oid, site_id |-> site_id, sensor_id |-> sensor_id, channel_id |-> channel_id,
     cnr_site_id |-> cnr_site_id, cnr_station_id |-> cnr_station_id,
     cnr_channel_id |-> cnr_channel_id, range_min |-> range_min, range_max |-> range_max]

\* Equality over all the fields of the channel, which the class does not define.
KeyEqStructural(a, b) ==
    /\ a.site_id = b.site_id /\ a.sensor_id = b.sensor_id /\ a.channel_id = b.channel_id
    /\ a.cnr_site_id = b.cnr_site_id /\ a.cnr_station_id = b.cnr_station_id
    /\ a.cnr_channel_id = b.cnr_channel_id
    /\ a.range_min = b.range_min /\ a.range_max = b.range_max

\* == and hash of two AlarmedChannelData: the class defines neither __eq__
\* nor __hash__, so two objects are equal when they are the same object.
KeyEq(a, b) == a.oid = b.oid

\* -------------------------------------------------- dict and list, by KeyEq
\* A dict is the sequence of its items [key, val] in insertion order.
DictHas(d, k) == \E i \in 1..Len(d) : KeyEq(d[i].key, k)

\* DictPut over keys that are equal when they are of the same channel: the
\* value put last overrides the value the channel had.
DictPut_ByChannel(d, k, v) ==
    IF \E i \in 1..Len(d) : d[i].key.channel_id = k.channel_id
    THEN [i \in 1..Len(d) |->
             IF d[i].key.channel_id = k.channel_id THEN [key |-> d[i].key, val |-> v] ELSE d[i]]
    ELSE Append(d, [key |-> k, val |-> v])

DictPut(d, k, v) ==
    IF DictHas(d, k)
    THEN [i \in 1..Len(d) |-> IF KeyEq(d[i].key, k) THEN [key |-> d[i].key, val |-> v] ELSE d[i]]
    ELSE Append(d, [key |-> k, val |-> v])

DictDel(d, k) == SelectSeq(d, LAMBDA e : ~KeyEq(e.key, k))

DictKeys(d) == [i \in 1..Len(d) |-> d[i].key]

RECURSIVE ListRemove(_, _)
\* list.remove(x): drop the first element equal to x.
ListRemove(s, x) ==
    IF s = << >> THEN << >>
    ELSE IF KeyEq(Head(s), x) THEN Tail(s)
    ELSE << Head(s) >> \o ListRemove(Tail(s), x)

\* The identities of the objects the manager holds.
LiveOids(d) == {d[i].key.oid : i \in 1..Len(d)}

\* ------------------------------------------------------------- AlarmFinder
\* last_alarm_reading.txt does not exist.
NoFile == << >>

\* time_string without the last field: the microseconds are not written.
time_string_NoMicroseconds(t) == << t \div 2, 0 >>

\* The text control_data writes: the fields of the datetime, one after the
\* other.  A datetime of the model has two fields, the second of them
\* (the microsecond) running over 0..1.
time_string(t) == << t \div 2, t % 2 >>

\* load_config that takes no file to mean no checkpoint, found or not.
load_config_Reset(file) == 0

\* AlarmFinder.load_config: last_time is datetime.min (0) when there is no
\* file, and the datetime of the fields read from it otherwise.
load_config(file) == IF file = NoFile THEN 0 ELSE file[1] * 2 + file[2]

GroupOf(r) ==
    [site_id |-> r.site_id, room_id |-> r.room_id, station_id |-> r.station_id,
     sensor_id |-> r.sensor_id, channel_id |-> r.channel_id]

\* GroupRows with >= for >: the row on the checkpoint is scanned again.
GroupRows_Inclusive(g, t) == {r \in readings : GroupOf(r) = g /\ r.date >= t}

\* The rows of a group the filter ReadingData.date > check_time keeps.
GroupRows(g, t) == {r \in readings : GroupOf(r) = g /\ r.date > t}

\* The indices in GroupSeq of the groups the query returns a row for.
GroupsFound(t) ==
    SelectSeq([i \in 1..Len(GroupSeq) |-> i], LAMBDA i : GroupRows(GroupSeq[i], t) # {})

\* ReadingData.date is selected beside the aggregate without being grouped
\* by: the database takes it from a row of the group it chooses.  d[i] is
\* the date it returns for group i.
DateChoices(t) ==
    { d \in [1..Len(GroupSeq) -> 0..(MaxTime + 1)] :
        \A i \in 1..Len(GroupSeq) :
            IF GroupRows(GroupSeq[i], t) = {} THEN d[i] = 0
            ELSE d[i] \in {r.date : r \in GroupRows(GroupSeq[i], t)} }

\* One row of query_min / query_max: the aggregate is record[0].
QueryRow(g, value, date) ==
    [value |-> value, channel_id |-> g.channel_id, station_id |-> g.station_id,
     sensor_id |-> g.sensor_id, room_id |-> g.room_id, site_id |-> g.site_id, date |-> date]

query_min(t, d) ==
    LET found == GroupsFound(t)
    IN  [k \in 1..Len(found) |->
            QueryRow(GroupSeq[found[k]],
                     Min({r.value_min : r \in GroupRows(GroupSeq[found[k]], t)}), d[found[k]])]

query_max(t, d) ==
    LET found == GroupsFound(t)
    IN  [k \in 1..Len(found) |->
            QueryRow(GroupSeq[found[k]],
                     Max({r.value_max : r \in GroupRows(GroupSeq[found[k]], t)}), d[found[k]])]

\* EnabledChannels without the filter Sensor.enabled == True.
EnabledChannels_All == ChannelSeq

\* The channels of the enabled sensors, joined with their sensor and site.
EnabledChannels == SelectSeq(ChannelSeq, LAMBDA c : SensorEnabled(c.sensor_id))

\* The join condition of a query row and a channel.
Joined(ch, record) ==
    ch.channel_cnr_id = record.channel_id /\ ch.site_cnr_id = record.site_id

\* alarm[channel] = [record[0], record.date] with a new AlarmedChannelData.
\* acc is [alarm_min, alarm_max, used]: the two dicts and the identities in use.
PutAlarm(acc, which, ch, record) ==
    LET channel == AlarmedChannelData(NewOid(acc.used),
                       ch.site_id, ch.sensor_id, ch.channel_id,
                       ch.site_cnr_id, ch.station_cnr_id, ch.channel_cnr_id,
                       ch.range_min, ch.range_max)
        val == [measure |-> record.value, date |-> record.date]
    IN  [alarm_min |-> IF which = MIN_MEASURE THEN DictPut(acc.alarm_min, channel, val)
                       ELSE acc.alarm_min,
         alarm_max |-> IF which = MAX_MEASURE THEN DictPut(acc.alarm_max, channel, val)
                       ELSE acc.alarm_max,
         used |-> acc.used \cup {channel.oid}]

\* MinBody with < for <=: a minimum on the threshold is no breach.
MinBody_Strict(acc, ch, record) ==
    IF Joined(ch, record)
    THEN IF record.value < ch.range_min THEN PutAlarm(acc, MIN_MEASURE, ch, record)
         ELSE IF record.value >= ch.range_max THEN PutAlarm(acc, MAX_MEASURE, ch, record)
         ELSE acc
    ELSE acc

\* The body of "for record in query_min: for ch in channels".
MinBody(acc, ch, record) ==
    IF Joined(ch, record)
    THEN IF record.value <= ch.range_min THEN PutAlarm(acc, MIN_MEASURE, ch, record)
         ELSE IF record.value >= ch.range_max THEN PutAlarm(acc, MAX_MEASURE, ch, record)
         ELSE acc
    ELSE acc

\* MaxBody that compares the maximum with range_min.
MaxBody_WrongBound(acc, ch, record) ==
    IF Joined(ch, record)
    THEN IF record.value >= ch.range_min THEN PutAlarm(acc, MAX_MEASURE, ch, record)
         ELSE acc
    ELSE acc

\* The body of "for record in query_max: for ch in channels".
MaxBody(acc, ch, record) ==
    IF Joined(ch, record)
    THEN IF record.value >= ch.range_max THEN PutAlarm(acc, MAX_MEASURE, ch, record)
         ELSE acc
    ELSE acc

RECURSIVE MinLoop(_, _, _, _)
\* The two nested loops over query_min and channels, from the k-th pair on.
MinLoop(acc, q, channels, k) ==
    IF k > Len(q) * Len(channels) THEN acc
    ELSE MinLoop(MinBody(acc, channels[((k - 1) % Len(channels)) + 1],
                         q[((k - 1) \div Len(channels)) + 1]),
                 q, channels, k + 1)

RECURSIVE MaxLoop(_, _, _, _)
\* The two nested loops over query_max and channels, from the k-th pair on.
MaxLoop(acc, q, channels, k) ==
    IF k > Len(q) * Len(channels) THEN acc
    ELSE MaxLoop(MaxBody(acc, channels[((k - 1) % Len(channels)) + 1],
                         q[((k - 1) \div Len(channels)) + 1]),
                 q, channels, k + 1)

\* compare_data over the rows after t; dmin and dmax are the dates the two
\* queries return, live the identities of the objects that exist already.
compare_data(t, dmin, dmax, live) ==
    LET channels == EnabledChannels
        start == [alarm_min |-> << >>, alarm_max |-> << >>, used |-> live]
        afterMin == MinLoop(start, query_min(t, dmin), channels, 1)
    IN  MaxLoop(afterMin, query_max(t, dmax), channels, 1)

\* The rows the query of check_alarmed can return first: those of the
\* channel's site, station and channel with the latest date.
LastMes(channel) ==
    LET rows == {r \in readings : /\ r.site_id = channel.cnr_site_id
                                  /\ r.station_id = channel.cnr_station_id
                                  /\ r.channel_id = channel.cnr_channel_id}
    IN  {r \in rows : \A o \in rows : o.date <= r.date}

\* Extinguished with >= and <=: a sample on a threshold clears the alarm.
Extinguished_NonStrict(channel, last_mes) ==
    last_mes.value_min >= channel.range_min /\ last_mes.value_max <= channel.range_max

\* res[channel] of check_alarmed for the row last_mes.
Extinguished(channel, last_mes) ==
    last_mes.value_min > channel.range_min /\ last_mes.value_max < channel.range_max

RECURSIVE CheckLoop_StopsAtMissing(_, _, _, _)
\* CheckLoop with break for continue: the loop ends at the first channel
\* no row is found for.
CheckLoop_StopsAtMissing(res, channel_data, rows, k) ==
    IF k > Len(channel_data) THEN res
    ELSE IF LastMes(channel_data[k]) = {}
         THEN res
         ELSE CheckLoop_StopsAtMissing(
                  DictPut(res, channel_data[k], Extinguished(channel_data[k], rows[k])),
                  channel_data, rows, k + 1)

RECURSIVE CheckLoop(_, _, _, _)
\* "for channel in channel_data", from the k-th on; rows[k] is the row the
\* query returns for the k-th channel when there is one.
CheckLoop(res, channel_data, rows, k) ==
    IF k > Len(channel_data) THEN res
    ELSE IF LastMes(channel_data[k]) = {}
         THEN CheckLoop(res, channel_data, rows, k + 1)
         ELSE CheckLoop(DictPut(res, channel_data[k], Extinguished(channel_data[k], rows[k])),
                        channel_data, rows, k + 1)

check_alarmed(channel_data, rows) == CheckLoop(<< >>, channel_data, rows, 1)

\* The warnings of check_alarmed: one for each channel no row is found for.
NotFound(channel_data) ==
    LET missing == SelectSeq(channel_data, LAMBDA c : LastMes(c) = {})
    IN  [k \in 1..Len(missing) |->
            [event |-> "channel not found", channel_id |-> missing[k].channel_id]]

\* The rows the queries of check_alarmed may return for channel_data.
RowChoices(channel_data) ==
    { rows \in [1..Len(channel_data) -> readings \cup {[date |-> 0]}] :
        \A k \in 1..Len(channel_data) :
            IF LastMes(channel_data[k]) = {} THEN rows[k] = [date |-> 0]
            ELSE rows[k] \in LastMes(channel_data[k]) }

\* ------------------------------------------------------------ AlarmManager
\* The manager's fields and what its handlers write outside it.
Manager ==
    [alarmed_channels |-> alarmed_channels,
     alarmed_channels_by_sensor |-> alarmed_channels_by_sensor,
     alarmed_channels_save_file |-> alarmed_channels_save_file,
     sensor_status |-> sensor_status,
     sent |-> sent,
     log |-> log]

\* dict.get(sensor_id), [] when the sensor has no entry.
SensorChannels(by_sensor, sensor_id) ==
    IF sensor_id \in DOMAIN by_sensor THEN by_sensor[sensor_id] ELSE << >>

\* save_alarmed_channels that leaves the file as it is.
save_alarmed_channels_Skip(m) == m

\* pickle.dump(self.alarmed_channels, out)
save_alarmed_channels(m) ==
    [m EXCEPT !.alarmed_channels_save_file = m.alarmed_channels]

\* The status written is "<channel ids> fired", or "ok" when there is none;
\* a sensor that is not found is left alone.
update_sensor_status(m, sensor_id) ==
    LET sites == SensorChannels(m.alarmed_channels_by_sensor, sensor_id)
        channel_ids == [i \in 1..Len(sites) |-> sites[i].channel_id]
    IN  IF sensor_id \notin SensorIds THEN m
        ELSE [m EXCEPT !.sensor_status =
                 [s \in DOMAIN m.sensor_status |->
                     IF s = sensor_id THEN channel_ids ELSE m.sensor_status[s]]]

\* The by-sensor index after on_alarm_start appended channel_data.
IndexAppend(by_sensor, channel_data) ==
    LET sid == channel_data.sensor_id
    IN  [s \in DOMAIN by_sensor \cup {sid} |->
            IF s = sid THEN Append(SensorChannels(by_sensor, sid), channel_data)
            ELSE by_sensor[s]]

\* The by-sensor index after on_alarm_end removed channel_data.
IndexRemove(by_sensor, channel_data) ==
    LET sid == channel_data.sensor_id
        sensor_channels == ListRemove(by_sensor[sid], channel_data)
    IN  [s \in (IF Len(sensor_channels) = 0 THEN DOMAIN by_sensor \ {sid}
                ELSE DOMAIN by_sensor) |->
            IF s = sid THEN sensor_channels ELSE by_sensor[s]]

\* self.contacter.send_alarm(channel_id, str(measure))
send_alarm(m, channel_id, unitvalue) ==
    [m EXCEPT !.sent = Append(m.sent, [channel_id |-> channel_id, unitvalue |-> unitvalue])]

\* logging.warning(...) of a handler, for the channel it is about
Logged(m, event, channel_data) ==
    [m EXCEPT !.log = Append(m.log, [event |-> event, channel_id |-> channel_data.channel_id])]

\* on_alarm_start without the update of the per-sensor index.
on_alarm_start_NoIndex(m, date, channel_data, measure, measure_type) ==
    LET m0 == Logged(m, "on_alarm_started", channel_data)
        m1 == [m0 EXCEPT !.alarmed_channels = DictPut(m0.alarmed_channels, channel_data, date)]
        m2 == save_alarmed_channels(m1)
        m4 == update_sensor_status(m2, channel_data.sensor_id)
    IN  send_alarm(m4, channel_data.channel_id, measure)

on_alarm_start(m, date, channel_data, measure, measure_type) ==
    LET m0 == Logged(m, "on_alarm_started", channel_data)
        m1 == [m0 EXCEPT !.alarmed_channels = DictPut(m0.alarmed_channels, channel_data, date)]
        m2 == save_alarmed_channels(m1)
        m3 == [m2 EXCEPT !.alarmed_channels_by_sensor =
                             IndexAppend(m2.alarmed_channels_by_sensor, channel_data)]
        m4 == update_sensor_status(m3, channel_data.sensor_id)
    IN  send_alarm(m4, channel_data.channel_id, measure)

\* logs, and nothing else
on_alarm_continue(m, channel_data, measure, measure_type) ==
    Logged(m, "on_alarm_continue", channel_data)

\* on_alarm_end that drops the whole entry of the sensor from the index.
on_alarm_end_DropsSensor(m, channel_data) ==
    LET m0 == Logged(m, "on_alarm_end", channel_data)
        m1 == [m0 EXCEPT !.alarmed_channels = DictDel(m0.alarmed_channels, channel_data)]
        m2 == save_alarmed_channels(m1)
        m3 == [m2 EXCEPT !.alarmed_channels_by_sensor =
                   [s \in DOMAIN m2.alarmed_channels_by_sensor \ {channel_data.sensor_id} |->
                       m2.alarmed_channels_by_sensor[s]]]
    IN  update_sensor_status(m3, channel_data.sensor_id)

on_alarm_end(m, channel_data) ==
    LET m0 == Logged(m, "on_alarm_end", channel_data)
        m1 == [m0 EXCEPT !.alarmed_channels = DictDel(m0.alarmed_channels, channel_data)]
        m2 == save_alarmed_channels(m1)
        m3 == [m2 EXCEPT !.alarmed_channels_by_sensor =
                             IndexRemove(m2.alarmed_channels_by_sensor, channel_data)]
    IN  update_sensor_status(m3, channel_data.sensor_id)

\* One turn of the loop over alarm_min.items() or alarm_max.items().
AlarmPass(m, item, measure_type) ==
    IF ~DictHas(m.alarmed_channels, item.key)
    THEN on_alarm_start(m, item.val.date, item.key, item.val.measure, measure_type)
    ELSE on_alarm_continue(m, item.key, item.val.measure, measure_type)

\* StatusPass that ends no alarm.
StatusPass_EndsNone(m, item) == m

\* One turn of the loop over status.items().
StatusPass(m, item) ==
    IF ~item.val THEN m ELSE on_alarm_end(m, item.key)

\* The manager's fields take the values of m.
SetManager(m) ==
    /\ alarmed_channels' = m.alarmed_channels
    /\ alarmed_channels_by_sensor' = m.alarmed_channels_by_sensor
    /\ alarmed_channels_save_file' = m.alarmed_channels_save_file
    /\ sensor_status' = m.sensor_status
    /\ sent' = m.sent
    /\ log' = m.log

managerVars == << alarmed_channels, alarmed_channels_by_sensor,
                  alarmed_channels_save_file, sensor_status >>

\* ------------------------------------------------------------------ actions
\* The state after AlarmManager.__init__ and load_config with no file in
\* the vardata folder: last_time is datetime.min and no alarm is running.
Init ==
    /\ now = 1
    /\ readings = {}
    /\ last_time = 0
    /\ last_time_file = NoFile
    /\ alarmed_channels = << >>
    /\ alarmed_channels_by_sensor = << >>
    /\ alarmed_channels_save_file = << >>
    /\ sensor_status = [s \in SensorIds |-> << >>]
    /\ sent = << >>
    /\ log = << >>
    /\ pc = "idle"
    /\ check_time = 0
    /\ alarm_min = << >>
    /\ alarm_max = << >>
    /\ status = << >>
    /\ sensor_enabled = [s \in SensorIds |-> TRUE]
    /\ failure = "none"
    /\ scanned = {}
    /\ is_running = FALSE
    /\ stop_event = FALSE
    /\ threads = << >>
    /\ stopper = "idle"
    /\ starter = StartDone
    /\ last_password_change = [u \in UserIds |-> 0]
    /\ tokens = {}

\* A logger writes a reading of one of the groups with one of the values,
\* dated now; (date, group) is the primary key.
AddReadingOf(groups, values, cap) ==
    /\ pc = "idle"
    /\ Cardinality(readings) < cap
    /\ \E i \in groups, v \in values :
         LET g == GroupSeq[i]
             r == [site_id |-> g.site_id, room_id |-> g.room_id, station_id |-> g.station_id,
                   sensor_id |-> g.sensor_id, channel_id |-> g.channel_id,
                   value_min |-> v.value_min, value_max |-> v.value_max, date |-> now]
         IN  /\ \A o \in readings : ~(GroupOf(o) = g /\ o.date = now)
             /\ readings' = readings \cup {r}
    /\ UNCHANGED << now, last_time, last_time_file, managerVars, sent, log, pc, check_time,
                    alarm_min, alarm_max, status, scanned, extVars >>

\* A logger writes a reading of any group with any of the values.
AddReading == AddReadingOf(1..Len(GroupSeq), Values, MaxReadings)

\* The loggers of the two stations of the catalog write a minimum on the
\* lower threshold, a reading inside the range or one above the range.
AddStationReading ==
    AddReadingOf({1, 3}, {v \in Values : v.value_min = v.value_max \/ v.value_min = 2},
                 MaxReadings)

\* Time passes, up to limit.
AdvanceUpTo(limit) ==
    /\ pc = "idle"
    /\ now < limit
    /\ now' = now + 1
    /\ UNCHANGED << readings, last_time, last_time_file, managerVars, sent, log, pc,
                    check_time, alarm_min, alarm_max, status, scanned, extVars >>

\* Time passes.
Advance == AdvanceUpTo(MaxTime)

\* The timer fires on_timer_tick, an interval after the tick before:
\* compare_data moves last_time to now, writes it to the file and runs the
\* two queries over the rows after check_time.
TickCompare ==
    /\ pc = "idle"
    /\ now > last_time
    /\ check_time' = last_time
    /\ last_time' = now
    /\ last_time_file' = time_string(now)
    /\ \E dmin \in DateChoices(last_time), dmax \in DateChoices(last_time) :
         LET res == compare_data(last_time, dmin, dmax, LiveOids(alarmed_channels))
         IN  /\ alarm_min' = res.alarm_min
             /\ alarm_max' = res.alarm_max
    /\ sent' = << >>
    /\ log' = << >>
    /\ scanned' = scanned \cup {r \in readings : r.date > last_time}
    /\ pc' = "min"
    /\ UNCHANGED << now, readings, managerVars, status, extVars >>

\* for channel_data, (min_measure, date) in alarm_min.items()
TickMin ==
    /\ pc = "min"
    /\ IF alarm_min = << >>
       THEN /\ pc' = "max"
            /\ UNCHANGED << managerVars, sent, log, alarm_min >>
       ELSE /\ SetManager(AlarmPass(Manager, Head(alarm_min), MIN_MEASURE))
            /\ alarm_min' = Tail(alarm_min)
            /\ pc' = pc
    /\ UNCHANGED << now, readings, last_time, last_time_file, check_time, alarm_max, status,
                    scanned, extVars >>

\* for channel_data, (max_measure, date) in alarm_max.items(), and then
\* status = check_alarmed(session, list(self.alarmed_channels.keys()))
TickMax ==
    /\ pc = "max"
    /\ IF alarm_max = << >>
       THEN /\ pc' = "end"
            /\ \E rows \in RowChoices(DictKeys(alarmed_channels)) :
                 status' = check_alarmed(DictKeys(alarmed_channels), rows)
            /\ log' = log \o NotFound(DictKeys(alarmed_channels))
            /\ UNCHANGED << managerVars, sent, alarm_max >>
       ELSE /\ SetManager(AlarmPass(Manager, Head(alarm_max), MAX_MEASURE))
            /\ alarm_max' = Tail(alarm_max)
            /\ pc' = pc
            /\ status' = status
    /\ UNCHANGED << now, readings, last_time, last_time_file, check_time, alarm_min,
                    scanned, extVars >>

\* for channel, alarm_extinguished in status.items(), and the tick returns
TickEnd ==
    /\ pc = "end"
    /\ IF status = << >>
       THEN /\ pc' = "idle"
            /\ sent' = << >>
            /\ log' = << >>
            /\ check_time' = 0
            /\ UNCHANGED << managerVars, status >>
       ELSE /\ SetManager(StatusPass(Manager, Head(status)))
            /\ status' = Tail(status)
            /\ pc' = pc
            /\ check_time' = check_time
    /\ UNCHANGED << now, readings, last_time, last_time_file, alarm_min, alarm_max,
                    scanned, extVars >>

Next ==
    \/ AddReading
    \/ Advance
    \/ TickCompare
    \/ TickMin
    \/ TickMax
    \/ TickEnd

Spec == Init /\ [][Next]_vars

\* --------------------------------------------------------------- properties
\* The channel identity of the specification: the local channel id and the
\* external site, station and channel ids.
SameChannel(a, b) ==
    /\ a.channel_id = b.channel_id /\ a.cnr_site_id = b.cnr_site_id
    /\ a.cnr_station_id = b.cnr_station_id /\ a.cnr_channel_id = b.cnr_channel_id

\* The records of the registry for the channel of key k.
RecordsOf(d, k) == {i \in 1..Len(d) : SameChannel(d[i].key, k)}

\* During the two breach passes every start appends one record and sends one
\* alarm, so the registry the tick began with is what precedes these records.
RegistryAtTickStart == SubSeq(alarmed_channels, 1, Len(alarmed_channels) - Len(sent))

\* A breach pass is about to handle the breach item.
BreachTurn(item) ==
    \/ pc = "min" /\ alarm_min # << >> /\ item = Head(alarm_min)
    \/ pc = "max" /\ alarm_max # << >> /\ item = Head(alarm_max)

BreachItems ==
    {alarm_min[i] : i \in 1..Len(alarm_min)} \cup {alarm_max[i] : i \in 1..Len(alarm_max)}

\* The tick has run all its passes and is about to return.
TickReturns == pc = "end" /\ status = << >>

\* C1: after any sequence of poll ticks the registry holds at most one
\* record for a channel identity.
C1_OneRecordPerChannel ==
    pc = "idle" =>
        \A i, j \in 1..Len(alarmed_channels) :
            SameChannel(alarmed_channels[i].key, alarmed_channels[j].key) => i = j

\* C2: a breach of a channel that was in the registry when the tick began
\* changes neither the registry, the per-sensor index, the persisted
\* registry nor the sensor status, and sends no alarm.
C2_ContinueChangesNothing ==
    [][\A item \in BreachItems :
          (BreachTurn(item) /\ RecordsOf(RegistryAtTickStart, item.key) # {})
              => (managerVars' = managerVars /\ sent' = sent)]_vars

\* C3: a breach of a channel that is not in the registry is started: the
\* channel is then in the registry with the date of the breach record, it is
\* listed under its sensor in the per-sensor index, the registry is
\* persisted, and send_alarm is called once, for that channel and value.
C3_StartOnNewBreach ==
    [][\A item \in BreachItems :
          (BreachTurn(item) /\ RecordsOf(alarmed_channels, item.key) = {})
              => /\ Len(alarmed_channels') = Len(alarmed_channels) + 1
                 /\ \E i \in RecordsOf(alarmed_channels', item.key) :
                       alarmed_channels'[i].val = item.val.date
                 /\ item.key.sensor_id \in DOMAIN alarmed_channels_by_sensor'
                 /\ \E j \in 1..Len(alarmed_channels_by_sensor'[item.key.sensor_id]) :
                       SameChannel(alarmed_channels_by_sensor'[item.key.sensor_id][j], item.key)
                 /\ alarmed_channels_save_file' = alarmed_channels'
                 /\ sent' = Append(sent, [channel_id |-> item.key.channel_id,
                                          unitvalue |-> item.val.measure])]_vars

\* C3 witness: a tick has started an alarm for a channel the registry did
\* not hold, and the channel is registered, indexed and notified.
C3_Witness ==
    /\ pc \in {"min", "max"}
    /\ Len(sent) = 1
    /\ Len(alarmed_channels) = 1
    /\ sent[1].channel_id = alarmed_channels[1].key.channel_id
    /\ alarmed_channels[1].key.sensor_id \in DOMAIN alarmed_channels_by_sensor

\* The elements of a sequence.
Range(q) == {q[i] : i \in 1..Len(q)}

\* The status pass is about to end the alarm of key k.
EndTurn(k) == pc = "end" /\ status # << >> /\ Head(status).val /\ k = Head(status).key

\* C4: ending the alarm of a cleared record removes that record, and no
\* other, from the registry and from the list of its sensor in the
\* per-sensor index; the sensor's entry goes when its list gets empty; the
\* other records and the lists of the other sensors stay as they are; the
\* registry is persisted and no alarm is sent.
C4_EndRemovesExactlyOne ==
    [][\A e \in Range(alarmed_channels) :
          EndTurn(e.key)
              => LET sid == e.key.sensor_id
                     others == SelectSeq(alarmed_channels_by_sensor[sid], LAMBDA k : k # e.key)
                 IN  /\ alarmed_channels' = SelectSeq(alarmed_channels, LAMBDA o : o # e)
                     /\ Len(alarmed_channels') = Len(alarmed_channels) - 1
                     /\ alarmed_channels_save_file' = alarmed_channels'
                     /\ \A s \in DOMAIN alarmed_channels_by_sensor \ {sid} :
                           /\ s \in DOMAIN alarmed_channels_by_sensor'
                           /\ alarmed_channels_by_sensor'[s] = alarmed_channels_by_sensor[s]
                     /\ DOMAIN alarmed_channels_by_sensor' \subseteq DOMAIN alarmed_channels_by_sensor
                     /\ Len(others) = Len(alarmed_channels_by_sensor[sid]) - 1
                     /\ IF others = << >>
                        THEN sid \notin DOMAIN alarmed_channels_by_sensor'
                        ELSE /\ sid \in DOMAIN alarmed_channels_by_sensor'
                             /\ alarmed_channels_by_sensor'[sid] = others
                     /\ sent' = sent]_vars

\* C4 witness: the status pass has ended one alarm of a sensor while another
\* record of that sensor stays in the registry and in the index.
C4_Witness ==
    /\ pc = "end"
    /\ \E i \in 1..Len(log), s \in DOMAIN alarmed_channels_by_sensor :
          /\ log[i].event = "on_alarm_end"
          /\ alarmed_channels_by_sensor[s] # << >>
          /\ alarmed_channels_by_sensor[s][1].channel_id = log[i].channel_id
          /\ alarmed_channels # << >>

\* The samples of a catalog channel: the rows under its external site,
\* station and channel ids.
SamplesOf(c) ==
    {r \in readings : /\ r.site_id = c.site_cnr_id /\ r.station_id = c.station_cnr_id
                      /\ r.channel_id = c.channel_cnr_id}

LatestSamplesOf(c) == {r \in SamplesOf(c) : \A o \in SamplesOf(c) : o.date <= r.date}

\* The sample is at or beyond a threshold of the channel.
Breaching(r, c) == r.value_min <= c.range_min \/ r.value_max >= c.range_max

\* The sample is strictly between the thresholds of the channel.
StrictlyWithin(r, c) == r.value_min > c.range_min /\ r.value_max < c.range_max

LatestSamplesOfKey(k) ==
    LET mine == {r \in readings : /\ r.site_id = k.cnr_site_id
                                  /\ r.station_id = k.cnr_station_id
                                  /\ r.channel_id = k.cnr_channel_id}
    IN  {r \in mine : \A o \in mine : o.date <= r.date}

\* check_alarmed is about to run: both breach passes are over.
CheckTurn == pc = "max" /\ alarm_max = << >>

\* C6: check_alarmed reports a record of the registry as cleared exactly
\* when the most recent sample under its site, station and channel ids,
\* whatever its date, lies strictly between the thresholds; a record with
\* no sample gets no verdict.
C6_ClearedIffLatestWithin ==
    [][CheckTurn =>
          \A e \in Range(alarmed_channels) :
              LET verdicts == {it \in Range(status') : it.key = e.key}
              IN  IF LatestSamplesOfKey(e.key) = {} THEN verdicts = {}
                  ELSE /\ Cardinality(verdicts) = 1
                       /\ \A it \in verdicts : \E r \in LatestSamplesOfKey(e.key) :
                             it.val = StrictlyWithin(r, e.key)]_vars

\* C6 witness: check_alarmed has reported a record as cleared on a latest
\* sample that is not after the checkpoint of the tick.
C6_Witness ==
    /\ pc = "end"
    /\ \E it \in Range(status) :
          /\ it.val
          /\ \E r \in LatestSamplesOfKey(it.key) : r.date <= check_time

\* C7: a record with no sample under its site, station and channel ids is
\* never removed from the registry, and check_alarmed still gives a verdict
\* for every other record.
C7_MissingDataStaysAlarmed ==
    [][/\ \A e \in Range(alarmed_channels) :
             LatestSamplesOfKey(e.key) = {} => e \in Range(alarmed_channels')
       /\ CheckTurn =>
             \A e \in Range(alarmed_channels) :
                 LatestSamplesOfKey(e.key) # {} => \E it \in Range(status') : it.key = e.key]_vars

\* C7 witness: check_alarmed has skipped a record with no sample, which is
\* still in the registry, and has a verdict for another record.
C7_Witness ==
    /\ pc = "end"
    /\ \E i \in 1..Len(log) : log[i].event = "channel not found"
    /\ \E e \in Range(alarmed_channels) : LatestSamplesOfKey(e.key) = {}
    /\ status # << >>

\* C8: when a tick returns, no record whose most recent sample lies
\* strictly between the thresholds is left in the registry; and a record
\* enters the registry only in a tick whose window holds a breaching row of
\* the channel's site and channel ids.
C8_ClearedThenAbsent ==
    [][/\ TickReturns =>
             \A e \in Range(alarmed_channels) :
                 \/ LatestSamplesOfKey(e.key) = {}
                 \/ \E r \in LatestSamplesOfKey(e.key) : ~StrictlyWithin(r, e.key)
       /\ \A e \in Range(alarmed_channels') :
             e \notin Range(alarmed_channels)
                 => /\ pc \in {"min", "max"}
                    /\ \E r \in readings :
                          /\ r.date > check_time
                          /\ r.site_id = e.key.cnr_site_id
                          /\ r.channel_id = e.key.cnr_channel_id
                          /\ Breaching(r, e.key)]_vars

\* C8 witness: a tick that started no alarm has ended the alarm an earlier
\* tick started, and the registry is empty again.
C8_Witness ==
    /\ TickReturns
    /\ sent = << >>
    /\ \E i \in 1..Len(log) : log[i].event = "on_alarm_end"
    /\ alarmed_channels = << >>

\* The rows of the scanned window under the site and channel ids of c.
WindowRows(c) ==
    {r \in readings : /\ r.date > check_time
                      /\ r.site_id = c.site_cnr_id /\ r.channel_id = c.channel_cnr_id}

\* The breach items of compare_data for the catalog channel c.
ItemsOf(q, c) == {i \in 1..Len(q) : q[i].key.channel_id = c.channel_id}

CompareReturned == pc = "min" /\ log = << >>

\* C10: compare_data returns one MinBreach item for each enabled channel
\* whose window minimum is at or below range_min and none for the others,
\* one MaxBreach item for each enabled channel whose window maximum is at or
\* above range_max and none for the others, each with the identity of the
\* channel and the extreme value.
C10_OneItemPerBreachingChannel ==
    CompareReturned =>
        \A k \in 1..Len(EnabledChannels) :
            LET c == EnabledChannels[k]
                rows == WindowRows(c)
                lowest == Min({r.value_min : r \in rows})
                highest == Max({r.value_max : r \in rows})
            IN  /\ Cardinality(ItemsOf(alarm_min, c)) =
                       IF rows # {} /\ lowest <= c.range_min THEN 1 ELSE 0
                /\ Cardinality(ItemsOf(alarm_max, c)) =
                       IF rows # {} /\ highest >= c.range_max THEN 1 ELSE 0
                /\ \A i \in ItemsOf(alarm_min, c) :
                       /\ alarm_min[i].val.measure = lowest
                       /\ alarm_min[i].key.cnr_station_id = c.station_cnr_id
                /\ \A i \in ItemsOf(alarm_max, c) :
                       /\ alarm_max[i].val.measure = highest
                       /\ alarm_max[i].key.cnr_station_id = c.station_cnr_id

\* ------------------------------------------------- the catalog is edited
\* PUT /sensor/<sid> with the argument enabled: rest_update sets
\* Sensor.enabled of that sensor, between two ticks.
SetEnabled ==
    /\ pc = "idle"
    /\ \E s \in SensorIds, b \in BOOLEAN :
         /\ b # sensor_enabled[s]
         /\ sensor_enabled' = [sensor_enabled EXCEPT ![s] = b]
    /\ UNCHANGED << now, readings, last_time, last_time_file, managerVars, sent, log, pc,
                    check_time, alarm_min, alarm_max, status, scanned, failure, timerVars, otherVars >>

NextCatalog ==
    \/ AddStationReading
    \/ Advance
    \/ SetEnabled
    \/ TickCompare
    \/ TickMin
    \/ TickMax
    \/ TickEnd

\* The alarm engine while an administrator enables and disables sensors.
SpecCatalog == Init /\ [][NextCatalog]_vars

\* C11: during a tick a channel whose sensor is disabled has no item in
\* alarm_min or alarm_max, no alarm is started for it and send_alarm is not
\* called for it, whatever its readings are.
C11_DisabledSensorNoBreach ==
    pc \in {"min", "max", "end"} =>
        \A k \in 1..Len(ChannelSeq) :
            LET c == ChannelSeq[k]
            IN  ~SensorEnabled(c.sensor_id)
                    => /\ ItemsOf(alarm_min, c) = {}
                       /\ ItemsOf(alarm_max, c) = {}
                       /\ \A i \in 1..Len(sent) : sent[i].channel_id # c.channel_id
                       /\ \A i \in 1..Len(log) :
                             ~(log[i].event = "on_alarm_started" /\ log[i].channel_id = c.channel_id)

\* C11 witness: compare_data has scanned a breaching row of the channel of
\* a disabled sensor, and found the breach of an enabled one beside it.
C11_Witness ==
    /\ pc = "min"
    /\ alarm_min # << >>
    /\ \E k \in 1..Len(ChannelSeq) :
          /\ ~SensorEnabled(ChannelSeq[k].sensor_id)
          /\ \E r \in WindowRows(ChannelSeq[k]) : Breaching(r, ChannelSeq[k])

\* ------------------------------------------- failures, crashes and restarts
\* with session_scope() as session: an error raised in the body leaves the
\* block and is raised again to the caller.
session_scope(outcome) == outcome

\* load_alarmed_channels: the registry is the pickled dictionary;
\* dict.fromkeys gives every sensor id the value None, and the first
\* self.alarmed_channels_by_sensor[x.sensor_id].append(x) raises
\* AttributeError.
load_alarmed_channels(file) ==
    [alarmed_channels |-> file,
     alarmed_channels_by_sensor |->
         [s \in {file[i].key.sensor_id : i \in 1..Len(file)} |-> "None"],
     raised |-> Len(file) > 0]

\* The check of AlarmManager.start: a sensor whose status is not "ok" and
\* that has no entry in the per-sensor index gets the status "ok".
Reconcile(sensors, by_sensor) ==
    [s \in DOMAIN sensors |->
        IF sensors[s] # << >> /\ s \notin DOMAIN by_sensor THEN << >> ELSE sensors[s]]

\* The frame of on_timer_tick is gone.
TickLocalsLost ==
    /\ sent' = << >>
    /\ log' = << >>
    /\ check_time' = 0
    /\ alarm_min' = << >>
    /\ alarm_max' = << >>
    /\ status' = << >>

\* The memory of the process is gone.
MemoryLost ==
    /\ last_time' = 0
    /\ alarmed_channels' = << >>
    /\ alarmed_channels_by_sensor' = << >>
    /\ TickLocalsLost

\* The error leaves on_timer_tick and RepeatingTimer.start, which calls
\* self.target(...) outside any try: the thread of the timer ends.
Raised(kind) ==
    /\ pc' = (IF session_scope("raised") = "raised" THEN "stopped" ELSE "idle")
    /\ failure' = kind
    /\ TickLocalsLost

\* The breach pass is about to start the alarm of its next item.
StartTurn(item) == BreachTurn(item) /\ ~DictHas(alarmed_channels, item.key)

\* A query raises: the two queries of control_data or the catalog query of
\* compare_data, after the checkpoint was moved and written, or a query of
\* check_alarmed.
FailQuery ==
    /\ \/ /\ pc = "idle"
          /\ now > last_time
          /\ last_time' = now
          /\ last_time_file' = time_string(now)
          /\ scanned' = scanned \cup {r \in readings : r.date > last_time}
       \/ /\ CheckTurn
          /\ alarmed_channels # << >>
          /\ UNCHANGED << last_time, last_time_file, scanned >>
    /\ Raised("query")
    /\ UNCHANGED << now, readings, managerVars, sensor_enabled, timerVars, otherVars >>

\* save_alarmed_channels raises in on_alarm_start or on_alarm_end: the
\* registry in memory is changed already, the file and the index are not.
FailPersistence ==
    /\ \/ \E item \in BreachItems :
             /\ StartTurn(item)
             /\ alarmed_channels' = DictPut(alarmed_channels, item.key, item.val.date)
       \/ \E k \in Range(DictKeys(alarmed_channels)) :
             /\ EndTurn(k)
             /\ alarmed_channels' = DictDel(alarmed_channels, k)
    /\ Raised("persistence")
    /\ UNCHANGED << now, readings, last_time, last_time_file, alarmed_channels_by_sensor,
                    alarmed_channels_save_file, sensor_status, scanned, sensor_enabled,
                    timerVars, otherVars >>

\* send_alarm raises, at the end of on_alarm_start.
FailNotifier ==
    /\ \E item \in BreachItems :
          /\ StartTurn(item)
          /\ LET m == on_alarm_start(Manager, item.val.date, item.key, item.val.measure,
                                     IF pc = "min" THEN MIN_MEASURE ELSE MAX_MEASURE)
             IN  /\ alarmed_channels' = m.alarmed_channels
                 /\ alarmed_channels_by_sensor' = m.alarmed_channels_by_sensor
                 /\ alarmed_channels_save_file' = m.alarmed_channels_save_file
                 /\ sensor_status' = m.sensor_status
    /\ Raised("notifier")
    /\ UNCHANGED << now, readings, last_time, last_time_file, scanned, sensor_enabled,
                    timerVars, otherVars >>

\* The process is killed between two statements of on_timer_tick, or while
\* the timer waits.
Crash ==
    /\ pc \notin {"down", "failed"}
    /\ MemoryLost
    /\ pc' = "down"
    /\ failure' = "none"
    /\ UNCHANGED << now, readings, last_time_file, alarmed_channels_save_file,
                    sensor_status, scanned, sensor_enabled, timerVars, otherVars >>

\* The process is killed in on_alarm_start or on_alarm_end, after
\* save_alarmed_channels and before update_sensor_status.
CrashInHandler ==
    /\ \/ \E item \in BreachItems :
             /\ StartTurn(item)
             /\ alarmed_channels_save_file' =
                    DictPut(alarmed_channels, item.key, item.val.date)
       \/ \E k \in Range(DictKeys(alarmed_channels)) :
             /\ EndTurn(k)
             /\ alarmed_channels_save_file' = DictDel(alarmed_channels, k)
    /\ MemoryLost
    /\ pc' = "down"
    /\ failure' = "none"
    /\ UNCHANGED << now, readings, last_time_file, sensor_status, scanned, sensor_enabled,
                    timerVars, otherVars >>

\* The process is started again: AlarmManager.load_config, then
\* AlarmManager.start.  An error of load_config ends the process.
Restart ==
    /\ pc = "down"
    /\ LET loaded == load_alarmed_channels(alarmed_channels_save_file)
       IN  IF loaded.raised
           THEN /\ pc' = "failed"
                /\ UNCHANGED << last_time, alarmed_channels, alarmed_channels_by_sensor,
                                sensor_status >>
           ELSE /\ pc' = "idle"
                /\ last_time' = load_config(last_time_file)
                /\ alarmed_channels' = loaded.alarmed_channels
                /\ alarmed_channels_by_sensor' = loaded.alarmed_channels_by_sensor
                /\ sensor_status' = Reconcile(sensor_status, loaded.alarmed_channels_by_sensor)
    /\ UNCHANGED << now, readings, last_time_file, alarmed_channels_save_file, sent, log,
                    check_time, alarm_min, alarm_max, status, scanned, failure,
                    sensor_enabled, timerVars, otherVars >>

\* The loggers of the two stations of the catalog write a minimum on the
\* lower threshold or a reading inside the range.
AddPlainReading ==
    AddReadingOf({1, 3}, {v \in Values : v.value_max = 3}, MaxReadings + 1)

NextCrash ==
    \/ AddPlainReading
    \/ Advance
    \/ TickCompare
    \/ TickMin
    \/ TickMax
    \/ TickEnd
    \/ FailQuery
    \/ FailPersistence
    \/ FailNotifier
    \/ Crash
    \/ CrashInHandler
    \/ Restart

\* The alarm engine with the errors a tick can raise, and the process
\* killed and started again.
SpecCrash == Init /\ [][NextCrash]_vars

\* The process is not running.
Down == {"down", "failed"}

\* control_data runs in this step: a tick begins, and gets to its queries.
PollStep == pc = "idle" /\ pc' \in {"min", "stopped"}

\* The channel of the catalog row r is a sample of.
ChannelsOfRow(r) == {k \in 1..Len(ChannelSeq) : r \in SamplesOf(ChannelSeq[k])}

\* A breach that was scanned and never registered: r is the only sample of
\* its channel, it breaches a threshold and a tick before this one scanned
\* it, and no alarm is running.  The tick that scanned it did not get to
\* on_alarm_start.
MissedBreach(r) ==
    /\ r \in scanned
    /\ alarmed_channels = << >>
    /\ alarmed_channels_save_file = << >>
    /\ \E k \in ChannelsOfRow(r) :
          /\ Breaching(r, ChannelSeq[k])
          /\ SamplesOf(ChannelSeq[k]) = {r}

GroupBySensor(d) ==
    [s \in {d[i].key.sensor_id : i \in 1..Len(d)} |->
        SelectSeq(DictKeys(d), LAMBDA k : k.sensor_id = s)]

\* The process is started in this step.
StartupStep == pc = "down" /\ pc' # "down"

\* C14: loading the persisted registry gives back the pairs that were
\* saved, and the per-sensor index built by the load is the registry
\* grouped by sensor, whether the registry is empty or not.
C14_RegistryRoundTrip ==
    [][StartupStep =>
          /\ pc' = "idle"
          /\ alarmed_channels' = alarmed_channels_save_file
          /\ alarmed_channels_by_sensor' = GroupBySensor(alarmed_channels_save_file)]_vars

\* C15: when the process is started again, a sensor with no channel in the
\* persisted registry has the status "ok" afterwards, and a sensor with a
\* channel in it keeps its status.
C15_StartupReconciles ==
    [][StartupStep =>
          \A s \in SensorIds :
              IF s \in DOMAIN GroupBySensor(alarmed_channels_save_file)
              THEN sensor_status'[s] = sensor_status[s]
              ELSE sensor_status'[s] = << >>]_vars

\* The sensor of the catalog channel with the local id c.
SensorOfChannel(c) ==
    ChannelSeq[CHOOSE k \in 1..Len(ChannelSeq) : ChannelSeq[k].channel_id = c].sensor_id

\* The sensors an alarm was started or ended for in the tick in progress.
TouchedSensors ==
    {SensorOfChannel(log[i].channel_id) :
        i \in {j \in 1..Len(log) : log[j].event \in {"on_alarm_started", "on_alarm_end"}}}

\* C16: when a tick returns, the status of every sensor it started or
\* ended an alarm for is "ok" exactly when no channel of the sensor is in
\* the registry, and otherwise lists the local ids of the alarmed channels
\* of the sensor, each of them once.
C16_StatusListsAlarmedChannels ==
    TickReturns =>
        \A s \in TouchedSensors :
            LET ids == {e.key.channel_id :
                           e \in {x \in Range(alarmed_channels) : x.key.sensor_id = s}}
            IN  /\ (sensor_status[s] = << >>) <=> (ids = {})
                /\ Range(sensor_status[s]) = ids
                /\ Len(sensor_status[s]) = Cardinality(ids)

\* C17: an error raised by a tick ends that tick only: the timer goes on
\* and waits for the next tick.
C17_ErrorAbortsOnlyTick ==
    [][(failure = "none" /\ failure' # "none") => pc' = "idle"]_vars

\* C18: when send_alarm raises in on_alarm_start the channel stays in the
\* registry, in the persisted registry and in the per-sensor index, and the
\* tick goes on with the breaches and the clearance checks that are left.
C18_NotifierFailureKeepsGoing ==
    [][\A item \in BreachItems :
          (StartTurn(item) /\ failure' = "notifier")
              => /\ \E i \in 1..Len(alarmed_channels') :
                       /\ alarmed_channels'[i].key = item.key
                       /\ alarmed_channels'[i].val = item.val.date
                 /\ alarmed_channels_save_file' = alarmed_channels'
                 /\ item.key.sensor_id \in DOMAIN alarmed_channels_by_sensor'
                 /\ item.key \in Range(alarmed_channels_by_sensor'[item.key.sensor_id])
                 /\ pc' = pc
                 /\ pc = "min" => alarm_min' = Tail(alarm_min) /\ alarm_max' = alarm_max
                 /\ pc = "max" => alarm_max' = Tail(alarm_max)]_vars

\* ---------------------------------------------------------- RepeatingTimer
\* The state of the alarm engine, which the timer's own steps leave alone.
engineVars == << now, readings, last_time, last_time_file, managerVars, sent, log, pc,
                 check_time, alarm_min, alarm_max, status, sensor_enabled, failure, scanned,
                 otherVars >>

\* A thread stands before a line of RepeatingTimer.start ("l18" ... "l32"),
\* runs the target ("target"), has returned from start at line 19
\* ("returned") or out of the loop ("exited"), or was ended by an error of
\* the target ("dead").
ThreadMoves(t, to) == threads' = [threads EXCEPT ![t] = to]

\* if self.is_running: return
StartGuard(running) == IF running THEN "returned" ELSE "l20"

\* while not self._stop_event.is_set()
LoopHead(event) == IF event THEN "exited" ELSE "l28"

\* AfterWait that does not look at the event.
AfterWait_Ignores(event) == "l32"

\* if self._stop_event.is_set(): return
AfterWait(event) == IF event THEN "exited" ELSE "l32"

\* start_async: a new thread runs start.
StartAsync ==
    /\ Len(threads) < MaxThreads
    /\ threads' = Append(threads, "l18")
    /\ UNCHANGED << is_running, stop_event, stopper, engineVars >>

CheckRunning ==
    /\ \E t \in DOMAIN threads :
          threads[t] = "l18" /\ ThreadMoves(t, StartGuard(is_running))
    /\ UNCHANGED << is_running, stop_event, stopper, engineVars >>

\* self._stop_event.clear()
ClearEvent ==
    /\ \E t \in DOMAIN threads : threads[t] = "l20" /\ ThreadMoves(t, "l21")
    /\ stop_event' = FALSE
    /\ UNCHANGED << is_running, stopper, engineVars >>

\* self.is_running = True
SetRunning ==
    /\ \E t \in DOMAIN threads : threads[t] = "l21" /\ ThreadMoves(t, "l25")
    /\ is_running' = TRUE
    /\ UNCHANGED << stop_event, stopper, engineVars >>

LoopCheck ==
    /\ \E t \in DOMAIN threads :
          threads[t] = "l25" /\ ThreadMoves(t, LoopHead(stop_event))
    /\ UNCHANGED << is_running, stop_event, stopper, engineVars >>

\* next_time += self.interval; delta = next_time - time.time(): the thread
\* waits when delta > 0 and calls the target at once when the tick before
\* overran the interval.
NextTime ==
    /\ \E t \in DOMAIN threads, to \in {"l29", "l32"} :
          threads[t] = "l28" /\ ThreadMoves(t, to)
    /\ UNCHANGED << is_running, stop_event, stopper, engineVars >>

\* self._stop_event.wait(delta) returns, on the timeout or on the event.
Wait ==
    /\ \E t \in DOMAIN threads : threads[t] = "l29" /\ ThreadMoves(t, "l30")
    /\ UNCHANGED << is_running, stop_event, stopper, engineVars >>

WaitCheck ==
    /\ \E t \in DOMAIN threads :
          threads[t] = "l30" /\ ThreadMoves(t, AfterWait(stop_event))
    /\ UNCHANGED << is_running, stop_event, stopper, engineVars >>

\* self.target(*self.args, **self.kwargs): a tick begins.
CallTarget ==
    /\ \E t \in DOMAIN threads : threads[t] = "l32" /\ ThreadMoves(t, "target")
    /\ UNCHANGED << is_running, stop_event, stopper, engineVars >>

\* The tick returns.
TargetReturns ==
    /\ \E t \in DOMAIN threads : threads[t] = "target" /\ ThreadMoves(t, "l25")
    /\ UNCHANGED << is_running, stop_event, stopper, engineVars >>

\* The tick raises: the error leaves start, and the thread ends.
TargetRaises ==
    /\ \E t \in DOMAIN threads : threads[t] = "target" /\ ThreadMoves(t, "dead")
    /\ UNCHANGED << is_running, stop_event, stopper, engineVars >>

\* stop: self._stop_event.set()
StopSet ==
    /\ stopper = "idle"
    /\ stop_event' = TRUE
    /\ stopper' = "l39"
    /\ UNCHANGED << is_running, threads, engineVars >>

\* stop: self.is_running = False
StopClearRunning ==
    /\ stopper = "l39"
    /\ is_running' = FALSE
    /\ stopper' = "idle"
    /\ UNCHANGED << stop_event, threads, engineVars >>

NextTimer ==
    \/ StartAsync
    \/ CheckRunning
    \/ ClearEvent
    \/ SetRunning
    \/ LoopCheck
    \/ NextTime
    \/ Wait
    \/ WaitCheck
    \/ CallTarget
    \/ TargetReturns
    \/ TargetRaises
    \/ StopSet
    \/ StopClearRunning

\* A RepeatingTimer whose start_async and stop are called at any time.
SpecTimer == Init /\ [][NextTimer]_vars

\* The threads that run the target.
Ticking == {t \in DOMAIN threads : threads[t] = "target"}

\* C19: at no time do two threads run the tick.
C19_NoOverlappingTicks == Cardinality(Ticking) <= 1

\* A call of start is between its test of is_running and its loop.
StartInProgress == \E t \in DOMAIN threads : threads[t] \in {"l18", "l20", "l21"}

\* C20: once stop has set the event, and as long as the timer is not
\* started again, no thread begins a tick; the steps of stop leave a tick
\* in progress alone.
C20_NoTickAfterStop ==
    [][/\ (stop_event /\ ~StartInProgress) =>
             \A t \in DOMAIN threads : threads'[t] = "target" => threads[t] = "target"
       /\ stopper' # stopper => threads' = threads]_vars

\* C20, amended: once stop has set the event, a thread that checks it, at
\* the head of the loop or after the wait, leaves the loop without another
\* tick; the steps of stop leave a tick in progress alone.
C20_StopAtNextCheck ==
    [][/\ \A t \in DOMAIN threads :
             (stop_event /\ threads[t] \in {"l25", "l30"} /\ threads'[t] # threads[t])
                 => threads'[t] = "exited"
       /\ stopper' # stopper => threads' = threads]_vars

\* C20 witness: stop was called while a thread was in the loop, and the
\* thread has left the loop.
C20_Witness ==
    /\ stop_event
    /\ ~is_running
    /\ stopper = "idle"
    /\ \E t \in DOMAIN threads : threads[t] = "exited"

\* ----------------------------------------------------------- tokens (REST)
\* get_unix_time: int(time.time()), the whole seconds of the clock.  Two
\* instants of the clock make a second, as in time_string.
get_unix_time(t) == t \div 2

\* passw_serializer.dumps({"id": user.id, "date": get_unix_time()}): the
\* token is its payload, signed with the key of the server.
generate_auth_token(user, t) == [id |-> user, date |-> get_unix_time(t)]

\* User.hash_password: pwd_context.hash gives a string, which never equals
\* the number last_password_change, so the early return is not taken and
\* last_password_change becomes get_unix_time().
hash_password(changes, user, t) == [changes EXCEPT ![user] = get_unix_time(t)]

\* check_auth_token for a token of the server (the signature is good and
\* the payload holds a date): None when the user is not found or the token
\* was generated before the last change of the password, else the user.
\* The result is the set of the users returned: {} stands for None.
check_auth_token(token, changes) ==
    IF token.id \notin DOMAIN changes THEN {}
    ELSE IF token.date < changes[token.id] THEN {}
    ELSE {token.id}

\* GET /token with the user's name and password: Token.get returns a token.
\* "old" tells that the password was changed after the token was issued.
Login ==
    /\ pc = "idle"
    /\ \E u \in UserIds :
          tokens' = tokens \cup {[token |-> generate_auth_token(u, now), old |-> FALSE]}
    /\ UNCHANGED << now, readings, last_time, last_time_file, managerVars, sent, log, pc,
                    check_time, alarm_min, alarm_max, status, scanned, sensor_enabled,
                    failure, timerVars, starter, last_password_change >>

\* PUT /user/<uid> with a password: RUser.put calls user.hash_password.
ChangePassword ==
    /\ pc = "idle"
    /\ \E u \in UserIds :
          /\ last_password_change' = hash_password(last_password_change, u, now)
          /\ tokens' = {IF k.token.id = u THEN [k EXCEPT !.old = TRUE] ELSE k : k \in tokens}
    /\ UNCHANGED << now, readings, last_time, last_time_file, managerVars, sent, log, pc,
                    check_time, alarm_min, alarm_max, status, scanned, sensor_enabled,
                    failure, timerVars, starter >>

NextAuth ==
    \/ Advance
    \/ Login
    \/ ChangePassword

\* The users of the REST interface log in and change their passwords.
SpecAuth == Init /\ [][NextAuth]_vars

\* C21: a token issued before the user's password was changed is rejected
\* by check_auth_token, and a token issued after the last change is
\* accepted as the user's.
C21_PasswordChangeRevokesTokens ==
    \A k \in tokens :
        IF k.old THEN check_auth_token(k.token, last_password_change) = {}
        ELSE check_auth_token(k.token, last_password_change) = {k.token.id}

\* ------------------------------------------------ a breach of both bounds
\* The min pass of the tick in progress started the alarm of the channel of
\* key k, which the registry did not hold when the tick began.
StartedByMinPass(k) ==
    /\ RecordsOf(RegistryAtTickStart, k) = {}
    /\ \E i \in 1..Len(sent) :
          sent[i].channel_id = k.channel_id /\ sent[i].unitvalue <= k.range_min

\* C22: when the max pass comes to a channel the min pass of the same tick
\* has started, it finds the channel in the registry: it logs
\* on_alarm_continue, and neither the registry, the index, the file, the
\* sensor status nor the notifier is touched a second time.
C22_BothBoundsStartedOnce ==
    [][\A item \in BreachItems :
          (pc = "max" /\ BreachTurn(item) /\ StartedByMinPass(item.key))
              => /\ managerVars' = managerVars
                 /\ sent' = sent
                 /\ log' = Append(log, [event |-> "on_alarm_continue",
                                        channel_id |-> item.key.channel_id])]_vars

\* The max pass has an item for the channel of key k.
HasMaxItem(k) == \E j \in 1..Len(alarm_max) : SameChannel(alarm_max[j].key, k)

JoinedGroups(c) ==
    {i \in 1..Len(GroupSeq) :
        GroupRows(GroupSeq[i], check_time) # {} /\ Joined(c, GroupSeq[i])}

\* The aggregates of group i over the scanned window.
WindowMin(i) == Min({r.value_min : r \in GroupRows(GroupSeq[i], check_time)})

WindowMax(i) == Max({r.value_max : r \in GroupRows(GroupSeq[i], check_time)})

\* C24: compare_data returns, for every enabled channel, one MinBreach item
\* for each joined minimum record at or below range_min, and one MaxBreach
\* item for each joined maximum record at or above range_max, which stands
\* in the place of the MaxBreach item the minimum record of the group may
\* have produced; each item carries the aggregate; there is no other item.
C24_ClassifiedPerRecord ==
    CompareReturned =>
        \A k \in 1..Len(EnabledChannels) :
            LET c == EnabledChannels[k]
                lows == {i \in JoinedGroups(c) : WindowMin(i) <= c.range_min}
                highs == {i \in JoinedGroups(c) : WindowMax(i) >= c.range_max}
            IN  /\ Cardinality(ItemsOf(alarm_min, c)) = Cardinality(lows)
                /\ {alarm_min[i].val.measure : i \in ItemsOf(alarm_min, c)} =
                       {WindowMin(i) : i \in lows}
                /\ Cardinality(ItemsOf(alarm_max, c)) = Cardinality(highs)
                /\ {alarm_max[i].val.measure : i \in ItemsOf(alarm_max, c)} =
                       {WindowMax(i) : i \in highs}

\* The rows stored under the external site, station and channel ids of k.
RowsOfKey(k) ==
    {r \in readings : /\ r.site_id = k.cnr_site_id
                      /\ r.station_id = k.cnr_station_id
                      /\ r.channel_id = k.cnr_channel_id}

\* C25: every breach item of a tick comes from rows of the scanned window
\* stored under the site, station and channel ids of its channel, so every
\* record of the registry has a sample check_alarmed can find.
C25_JoinOnFullIdentity ==
    /\ \A it \in BreachItems : \E r \in RowsOfKey(it.key) : r.date > check_time
    /\ \A e \in Range(alarmed_channels) : RowsOfKey(e.key) # {}

ListedOnce(by_sensor) ==
    \A s \in DOMAIN by_sensor :
        \A i, j \in 1..Len(by_sensor[s]) :
            SameChannel(by_sensor[s][i], by_sensor[s][j]) => i = j

\* C27: loading the persisted registry at startup returns with an index,
\* and whenever the loop comes to rest between two ticks (after a tick, or
\* after the load) the index is the registry grouped by sensor, with no
\* empty entry and no channel listed twice.
C27_IndexIsRegistryBySensor ==
    [][/\ StartupStep => pc' = "idle"
       /\ (pc # "idle" /\ pc' = "idle")
             => /\ alarmed_channels_by_sensor' = GroupBySensor(alarmed_channels')
                /\ \A s \in DOMAIN alarmed_channels_by_sensor' :
                      alarmed_channels_by_sensor'[s] # << >>
                /\ ListedOnce(alarmed_channels_by_sensor')]_vars

\* ------------------------------------------- started and ended in one tick
\* The entries of the log of the tick in progress for an event of the
\* channel with the local id c.
LogOf(event, c) == {i \in 1..Len(log) : log[i].event = event /\ log[i].channel_id = c}

\* The scanned window holds a breaching sample of the catalog channel c,
\* and the latest sample of c lies strictly between its thresholds.
BreachedAndBack(c) ==
    /\ \E r \in SamplesOf(c) : r.date > check_time /\ Breaching(r, c)
    /\ LatestSamplesOf(c) # {}
    /\ \A r \in LatestSamplesOf(c) : StrictlyWithin(r, c)

\* C28: when a tick returns, every record left in the registry has no
\* sample at all or a latest sample at or beyond a threshold; and a channel
\* with a breaching sample in the window and a latest sample within range
\* was started, with the notifier called, and ended by this tick, and has
\* no record left.
C28_NoClearedLeftAtTickEnd ==
    TickReturns =>
        /\ \A e \in Range(alarmed_channels) :
              \/ LatestSamplesOfKey(e.key) = {}
              \/ \E r \in LatestSamplesOfKey(e.key) : Breaching(r, e.key)
        /\ \A k \in 1..Len(EnabledChannels) :
              LET c == EnabledChannels[k]
              IN  BreachedAndBack(c)
                      => /\ LogOf("on_alarm_started", c.channel_id) # {}
                         /\ \E i \in 1..Len(sent) : sent[i].channel_id = c.channel_id
                         /\ Cardinality(LogOf("on_alarm_end", c.channel_id)) >=
                                Cardinality(LogOf("on_alarm_started", c.channel_id))
                         /\ \A e \in Range(alarmed_channels) :
                               e.key.channel_id # c.channel_id

\* C28 witness: a tick returns that has started and ended the alarm of a
\* channel, once each, and the registry is empty.
C28_Witness ==
    /\ TickReturns
    /\ alarmed_channels = << >>
    /\ \E k \in 1..Len(EnabledChannels) :
          /\ BreachedAndBack(EnabledChannels[k])
          /\ Cardinality(LogOf("on_alarm_started", EnabledChannels[k].channel_id)) = 1
          /\ Cardinality(LogOf("on_alarm_end", EnabledChannels[k].channel_id)) = 1
          /\ Len(sent) = 1

\* ------------------------------------------------ rows dated by the loggers
\* A logger writes a reading with the date of its own clock, which may be
\* behind or ahead of datetime.now() of the server; (date, group) is the
\* primary key.
AddDatedReading ==
    /\ pc = "idle"
    /\ Cardinality(readings) < MaxReadings
    /\ \E i \in {1, 3}, v \in Values, d \in 1..MaxTime :
         LET g == GroupSeq[i]
             r == [site_id |-> g.site_id, room_id |-> g.room_id, station_id |-> g.station_id,
                   sensor_id |-> g.sensor_id, channel_id |-> g.channel_id,
                   value_min |-> v.value_min, value_max |-> v.value_max, date |-> d]
         IN  /\ \A o \in readings : ~(GroupOf(o) = g /\ o.date = d)
             /\ readings' = readings \cup {r}
    /\ UNCHANGED << now, last_time, last_time_file, managerVars, sent, log, pc, check_time,
                    alarm_min, alarm_max, status, scanned, extVars >>

NextWindow ==
    \/ AddDatedReading
    \/ Advance
    \/ TickCompare
    \/ TickMin
    \/ TickMax
    \/ TickEnd

\* The alarm engine over rows that carry the dates of the loggers.
SpecWindow == Init /\ [][NextWindow]_vars

\* C29: the queries of a tick run over no row that the queries of a tick
\* before have run over.
C29_ScannedOnce ==
    [][(pc = "idle" /\ pc' = "min")
          => \A r \in readings : r.date > last_time => r \notin scanned]_vars

\* ------------------------------------------- AlarmManager.start, step by step
\* The process is started again: AlarmManager.load_config.  An error of
\* load_alarmed_channels ends the process before AlarmManager.start.
StartLoad ==
    /\ pc = "down"
    /\ LET loaded == load_alarmed_channels(alarmed_channels_save_file)
       IN  IF loaded.raised
           THEN /\ pc' = "failed"
                /\ UNCHANGED << last_time, alarmed_channels, alarmed_channels_by_sensor >>
           ELSE /\ pc' = "loaded"
                /\ last_time' = load_config(last_time_file)
                /\ alarmed_channels' = loaded.alarmed_channels
                /\ alarmed_channels_by_sensor' = loaded.alarmed_channels_by_sensor
    /\ UNCHANGED << now, readings, last_time_file, alarmed_channels_save_file, sensor_status,
                    sent, log, check_time, alarm_min, alarm_max, status, scanned, failure,
                    sensor_enabled, timerVars, otherVars >>

\* What a step of the caller of AlarmManager.start leaves alone: the tick
\* and the manager's dictionaries.
startFrame == << now, readings, last_time, last_time_file, alarmed_channels,
                alarmed_channels_by_sensor, alarmed_channels_save_file, sent, log,
                check_time, alarm_min, alarm_max, status, scanned, failure, sensor_enabled,
                timerVars, last_password_change, tokens >>

\* self.timer.start_async(): from here on the thread of the timer runs
\* on_timer_tick beside the caller.
StartTimer ==
    /\ pc = "loaded"
    /\ starter = StartDone
    /\ pc' = "idle"
    /\ starter' = [pc |-> "query", alarmed_sensors |-> << >>, dirty |-> {}]
    /\ UNCHANGED << sensor_status, startFrame >>

\* The sensors of S in the order of their ids, as the query returns them.
RECURSIVE SensorList(_)
SensorList(S) ==
    IF S = {} THEN << >> ELSE << Min(S) >> \o SensorList(S \ {Min(S)})

\* alarmed_sensors = session.query(Sensor).filter(Sensor.status != "ok").all()
StartQuery ==
    /\ starter.pc = "query"
    /\ starter' = [pc |-> "check",
                   alarmed_sensors |-> SensorList({s \in SensorIds : sensor_status[s] # << >>}),
                   dirty |-> {}]
    /\ UNCHANGED << pc, sensor_status, startFrame >>

\* for sensor in alarmed_sensors: sensor.status = "ok" on the object of the
\* session when the sensor is not a key of the index; the row is written
\* by the commit.
StartCheck ==
    /\ starter.pc = "check"
    /\ IF starter.alarmed_sensors = << >>
       THEN starter' = [starter EXCEPT !.pc = "commit"]
       ELSE LET sensor == Head(starter.alarmed_sensors)
            IN  starter' = [pc |-> "check",
                            alarmed_sensors |-> Tail(starter.alarmed_sensors),
                            dirty |-> IF sensor \notin DOMAIN alarmed_channels_by_sensor
                                      THEN starter.dirty \cup {sensor}
                                      ELSE starter.dirty]
    /\ UNCHANGED << pc, sensor_status, startFrame >>

\* session.commit(): the status of the sensors changed in the session is
\* written, and AlarmManager.start returns.
StartCommit ==
    /\ starter.pc = "commit"
    /\ sensor_status' = [s \in SensorIds |->
                            IF s \in starter.dirty THEN << >> ELSE sensor_status[s]]
    /\ starter' = StartDone
    /\ UNCHANGED << pc, startFrame >>

\* The loggers of the station of channel 1 write a reading inside the
\* range or one above it.
AddSensorReading ==
    AddReadingOf({1}, {v \in Values : v.value_min = v.value_max}, MaxReadings + 1)

\* The process is killed in on_alarm_start or on_alarm_end while no thread
\* is in AlarmManager.start.
CrashAfterStart == starter = StartDone /\ CrashInHandler

NextStart ==
    \/ AddSensorReading
    \/ AdvanceUpTo(MaxTime + 1)
    \/ TickCompare
    \/ TickMin
    \/ TickMax
    \/ TickEnd
    \/ CrashAfterStart
    \/ StartLoad
    \/ StartTimer
    \/ StartQuery
    \/ StartCheck
    \/ StartCommit

\* The alarm engine with the process killed and started again, the start
\* running statement by statement beside the ticks of the timer.
SpecStart == Init /\ [][NextStart]_vars

\* C30: once AlarmManager.start has returned and no tick is in progress,
\* no sensor with a channel in the registry has the stored status "ok".
C30_RegistrySensorsNotOk ==
    (starter = StartDone /\ pc = "idle")
        => \A i \in 1..Len(alarmed_channels) :
              sensor_status[alarmed_channels[i].key.sensor_id] # << >>

====
